---- MODULE Spec2Model ----
(***************************************************************************)
(* Model of iremoted.c: a single-threaded program that locates the Apple   *)
(* Infrared Remote HID device, resolves the cookies of its six buttons,    *)
(* opens the device, attaches a queue callback to the run loop and prints  *)
(* every queued event, optionally forwarding two buttons to Keynote.       *)
(* The operating system (IOKit, CoreFoundation, Apple events) is the       *)
(* environment: every call into it has a nondeterministic outcome.         *)
(***************************************************************************)
EXTENDS Integers, Sequences, FiniteSets, TLC

\* ---------------------------------------------------------------- bounds
MaxArgs == 2            \* command-line options given to main
MaxElements == 2        \* length of the device's element array
MaxEvents == 2          \* hardware events delivered in one run

\* depth passed to (*queue)->create(queue, 0, 8)
QueueDepth == 8

\* ------------------------------------------------------------ input sets
\* options getopt_long can return: 'h', 'k', or '?' for anything else
OptionChars == {"h", "k", "?"}

RECURSIVE SeqsUpTo(_, _)
SeqsUpTo(S, n) ==
    IF n = 0 THEN {<< >>}
    ELSE LET shorter == SeqsUpTo(S, n - 1)
         IN  shorter \cup {Append(s, x) : s \in {t \in shorter : Len(t) = n - 1}, x \in S}

\* A dictionary number that is absent, not a CFNumber, or not convertible.
NoNumber == "NoNumber"

\* Cookies the HID driver assigns to elements are nonzero.
CookieValues == {5, 27}

RoleUsages == << "kHIDUsage_GD_SystemAppMenu", "kHIDUsage_GD_SystemMenu",
                 "kHIDUsage_GD_SystemMenuRight", "kHIDUsage_GD_SystemMenuLeft",
                 "kHIDUsage_GD_SystemMenuUp", "kHIDUsage_GD_SystemMenuDown" >>

\* An element dictionary: cookie is << >> when the cookie number is missing,
\* <<c>> otherwise; usage and usagePage are NoNumber when missing.
ElementsOver(cookies, usages, pages) ==
    [cookie : cookies, usage : usages, usagePage : pages]

\* every shape of element getHIDCookies distinguishes
AllElements ==
    ElementsOver({<< >>} \cup {<<c>> : c \in CookieValues},
                 {NoNumber, "kHIDUsage_GD_Mouse"} \cup {RoleUsages[k] : k \in 1..6},
                 {NoNumber, "kHIDPage_GenericDesktop", "kHIDPage_Consumer"})

\* the elements used when the whole program is run: the two navigation
\* buttons, on the Generic Desktop page or on another one
DeviceElements ==
    ElementsOver({<<c>> : c \in CookieValues},
                 {"kHIDUsage_GD_SystemMenuRight", "kHIDUsage_GD_SystemMenuLeft"},
                 {"kHIDPage_GenericDesktop", "kHIDPage_Consumer"})

\* event.value: 0 is a release, anything else a press
EventValues == {0, 1, 2}

\* ------------------------------------------------------- pure operators
\* memset(cookies, 0, sizeof(*cookies))
ZeroCookies ==
    [gButtonCookie_SystemAppMenu |-> 0, gButtonCookie_SystemMenuSelect |-> 0,
     gButtonCookie_SystemMenuRight |-> 0, gButtonCookie_SystemMenuLeft |-> 0,
     gButtonCookie_SystemMenuUp |-> 0, gButtonCookie_SystemMenuDown |-> 0]

\* the three `continue` tests of the element loop
HasNumbers(el) ==
    /\ el.cookie # << >>
    /\ el.usage # NoNumber
    /\ el.usagePage # NoNumber

\* fault: the switch is entered without the usage-page test
SwitchCaseAnyPage(el) ==
    IF /\ HasNumbers(el)
       /\ \E k \in 1..6 : RoleUsages[k] = el.usage
    THEN el.usage
    ELSE "none"

\* the usage the switch statement acts on, or "none"
SwitchCase(el) ==
    IF /\ HasNumbers(el)
       /\ el.usagePage = "kHIDPage_GenericDesktop"
       /\ \E k \in 1..6 : RoleUsages[k] = el.usage
    THEN el.usage
    ELSE "none"

\* body of the for loop of getHIDCookies, on the cookie record
StoreCookie(c, el) ==
    LET u == SwitchCase(el) IN
    IF u = "kHIDUsage_GD_SystemAppMenu"
      THEN [c EXCEPT !.gButtonCookie_SystemAppMenu = el.cookie[1]]
    ELSE IF u = "kHIDUsage_GD_SystemMenu"
      THEN [c EXCEPT !.gButtonCookie_SystemMenuSelect = el.cookie[1]]
    ELSE IF u = "kHIDUsage_GD_SystemMenuRight"
      THEN [c EXCEPT !.gButtonCookie_SystemMenuRight = el.cookie[1]]
    ELSE IF u = "kHIDUsage_GD_SystemMenuLeft"
      THEN [c EXCEPT !.gButtonCookie_SystemMenuLeft = el.cookie[1]]
    ELSE IF u = "kHIDUsage_GD_SystemMenuUp"
      THEN [c EXCEPT !.gButtonCookie_SystemMenuUp = el.cookie[1]]
    ELSE IF u = "kHIDUsage_GD_SystemMenuDown"
      THEN [c EXCEPT !.gButtonCookie_SystemMenuDown = el.cookie[1]]
    ELSE c

\* the loop body's assignment to the global buttonNextID
StoreNextID(id, el) ==
    IF SwitchCase(el) = "kHIDUsage_GD_SystemMenuRight" THEN el.cookie[1] ELSE id

\* the loop body's assignment to the global buttonPreviousID
StorePreviousID(id, el) ==
    IF SwitchCase(el) = "kHIDUsage_GD_SystemMenuLeft" THEN el.cookie[1] ELSE id

\* the six addElement calls of processQueue
AddedElements(c) ==
    {c.gButtonCookie_SystemAppMenu, c.gButtonCookie_SystemMenuSelect,
     c.gButtonCookie_SystemMenuRight, c.gButtonCookie_SystemMenuLeft,
     c.gButtonCookie_SystemMenuUp, c.gButtonCookie_SystemMenuDown}

HexDigit == << "0", "1", "2", "3", "4", "5", "6", "7",
               "8", "9", "a", "b", "c", "d", "e", "f" >>

RECURSIVE HexDigitsOf(_)
HexDigitsOf(n) ==
    IF n < 16 THEN << HexDigit[n + 1] >>
    ELSE Append(HexDigitsOf(n \div 16), HexDigit[(n % 16) + 1])

\* printf("%#lx", (UInt32)n), n a cookie below 2^32: "0" for zero, "0x" and
\* the hex digits otherwise
FormatCookie(n) ==
    IF n = 0 THEN << "0" >> ELSE << "0", "x" >> \o HexDigitsOf(n)

\* fault: the label tests value == 1 for a press
LabelOnlyOne(value) == IF value = 1 THEN "pressed" ELSE "depressed"

\* (event.value == 0) ? "depressed" : "pressed"
Label(value) == IF value = 0 THEN "depressed" ELSE "pressed"

\* the line printf writes for one event
EventLine(ev) == [hex |-> FormatCookie(ev.elementCookie), label |-> Label(ev.value)]

\* the text usage() prints
UsageText == [hex |-> << >>, label |-> "usage"]

\* fault: the test of event.value is left out, so a release forwards too
SlideActionsAnyValue(ev, drive, nextID, previousID) ==
    IF drive # 0
    THEN IF ev.elementCookie = nextID THEN << "slideForward" >>
         ELSE IF ev.elementCookie = previousID THEN << "slideBackward" >>
         ELSE << >>
    ELSE << >>

\* the Keynote calls made for one event: lines 193-198
SlideActions(ev, drive, nextID, previousID) ==
    IF ev.value # 0 /\ drive # 0
    THEN IF ev.elementCookie = nextID THEN << "slideForward" >>
         ELSE IF ev.elementCookie = previousID THEN << "slideBackward" >>
         ELSE << >>
    ELSE << >>

\* how a KeynoteChangeSlide call can end: both Apple event calls succeed,
\* AEBuildAppleEvent fails, or AESend fails
AEOutcomes == {"noErr", "buildError", "sendError"}

\* what KeynoteChangeSlide writes to standard error
KeynoteChangeSlide(outcome) ==
    IF outcome = "buildError" THEN << "Failed to build Apple event." >>
    ELSE IF outcome = "sendError" THEN << "Failed to send Apple event." >>
    ELSE << >>

\* fault: the newest event is taken instead of the oldest
getNextEventNewest(q) ==
    IF q = << >> THEN [ret |-> 1, queue |-> q]
    ELSE [ret |-> 0, event |-> q[Len(q)], queue |-> SubSeq(q, 1, Len(q) - 1)]

\* (*hqi)->getNextEvent with a zero timeout: an error on an empty queue,
\* the oldest event otherwise
getNextEvent(q) ==
    IF q = << >> THEN [ret |-> 1, queue |-> q]
    ELSE [ret |-> 0, event |-> Head(q), queue |-> Tail(q)]

\* ---------------------------------------------------------------- state
VARIABLES
    pc,                 \* the statement the process is at
    args,               \* options getopt_long has not returned yet
    driveKeynote,       \* static int driveKeynote
    buttonNextID,       \* global
    buttonPreviousID,   \* global
    cookies,            \* the cookie_struct, ZeroCookies before it is filled
    hidDeviceInterface, \* "NULL" or "valid": setupAndRun's local
    elements,           \* getHIDCookies' CFArray of element dictionaries
    i,                  \* getHIDCookies' loop index
    refs,               \* reference count of the device interface
    ifaceCalls,         \* calls made on the device interface, with the count before
    setupOpen,          \* ioReturnValue of setupAndRun's open
    doRunOpen,          \* ioReturnValue of doRun's open
    queueElements,      \* cookies added to the queue
    callbacksAdded,     \* what addQueueCallbacks returned
    sourceAdded,        \* the event source is on the run loop, with its callout
    evq,                \* events in the HID queue
    notified,           \* the queue's port has a pending notification
    arrived,            \* events delivered so far
    event,              \* QueueCallbackFunction's local event
    handled,            \* events dequeued by getNextEvent, in order
    cbStart,            \* Len(handled) when the current callback began
    cbSnapshot,         \* the queue when the current callback began
    cbArrived,          \* an event arrived during the current callback
    stdout,             \* lines written to standard output
    stderr,             \* messages written to standard error
    keynote,            \* KeynoteChangeSlide calls: [n, action], n the event's index
    failure,            \* the OS-level failure met, "none" if none
    exitStatus          \* "none" while running, else the exit status

vars == << pc, args, driveKeynote, buttonNextID, buttonPreviousID, cookies,
           hidDeviceInterface, elements, i, refs, ifaceCalls, setupOpen,
           doRunOpen, queueElements, callbacksAdded, sourceAdded, evq,
           notified, arrived, event, handled, cbStart, cbSnapshot, cbArrived,
           stdout, stderr, keynote, failure,
           exitStatus >>

NoEvent == [elementCookie |-> 0, value |-> 0]

InitCommon ==
    /\ driveKeynote = 0
    /\ buttonNextID = 0
    /\ buttonPreviousID = 0
    /\ cookies = ZeroCookies
    /\ elements = << >>
    /\ i = 0
    /\ ifaceCalls = << >>
    /\ setupOpen = "unset"
    /\ doRunOpen = "unset"
    /\ queueElements = {}
    /\ callbacksAdded = "unset"
    /\ sourceAdded = FALSE
    /\ evq = << >>
    /\ notified = FALSE
    /\ arrived = 0
    /\ event = NoEvent
    /\ handled = << >>
    /\ cbStart = 0
    /\ cbSnapshot = << >>
    /\ cbArrived = FALSE
    /\ stdout = << >>
    /\ stderr = << >>
    /\ keynote = << >>
    /\ failure = "none"
    /\ exitStatus = "none"

Init ==
    /\ pc = "main"
    /\ args \in SeqsUpTo(OptionChars, MaxArgs)
    /\ hidDeviceInterface = "NULL"
    /\ refs = 0
    /\ InitCommon

\* exit(status) after fprintf(stderr, msg)
Die(msg, status) ==
    /\ stderr' = Append(stderr, msg)
    /\ exitStatus' = status
    /\ pc' = "exited"

\* ------------------------------------------------------------------ main
\* getopt_long returns 'h': usage(); exit(0)
MainHelp ==
    /\ pc = "main"
    /\ args # << >> /\ Head(args) = "h"
    /\ stdout' = Append(stdout, UsageText)
    /\ exitStatus' = "0"
    /\ pc' = "exited"
    /\ args' = Tail(args)
    /\ UNCHANGED << driveKeynote, buttonNextID, buttonPreviousID, cookies,
                    hidDeviceInterface, elements, i, refs, ifaceCalls, setupOpen,
                    doRunOpen, queueElements, callbacksAdded, sourceAdded, evq,
                    notified, arrived, event, handled, cbStart, cbSnapshot,
                    cbArrived, stderr, keynote,
                    failure >>

\* getopt_long returns 'k': driveKeynote = 1
MainKeynote ==
    /\ pc = "main"
    /\ args # << >> /\ Head(args) = "k"
    /\ driveKeynote' = 1
    /\ args' = Tail(args)
    /\ UNCHANGED << pc, buttonNextID, buttonPreviousID, cookies,
                    hidDeviceInterface, elements, i, refs, ifaceCalls, setupOpen,
                    doRunOpen, queueElements, callbacksAdded, sourceAdded, evq,
                    notified, arrived, event, handled, cbStart, cbSnapshot,
                    cbArrived, stdout, stderr, keynote, failure, exitStatus >>

\* getopt_long returns anything else: usage(); exit(1)
MainBadOption ==
    /\ pc = "main"
    /\ args # << >> /\ Head(args) \notin {"h", "k"}
    /\ stdout' = Append(stdout, UsageText)
    /\ exitStatus' = "1"
    /\ pc' = "exited"
    /\ args' = Tail(args)
    /\ UNCHANGED << driveKeynote, buttonNextID, buttonPreviousID, cookies,
                    hidDeviceInterface, elements, i, refs, ifaceCalls, setupOpen,
                    doRunOpen, queueElements, callbacksAdded, sourceAdded, evq,
                    notified, arrived, event, handled, cbStart, cbSnapshot,
                    cbArrived, stderr, keynote,
                    failure >>

\* getopt_long returns -1: setupAndRun()
MainSetupAndRun ==
    /\ pc = "main"
    /\ args = << >>
    /\ pc' = "IOServiceGetMatchingService"
    /\ UNCHANGED << args, driveKeynote, buttonNextID, buttonPreviousID, cookies,
                    hidDeviceInterface, elements, i, refs, ifaceCalls, setupOpen,
                    doRunOpen, queueElements, callbacksAdded, sourceAdded, evq,
                    notified, arrived, event, handled, cbStart, cbSnapshot,
                    cbArrived, stdout, stderr, keynote, failure, exitStatus >>

\* ----------------------------------------------------------- setupAndRun
\* what the steps before the device interface is used leave alone
StartupFrame ==
    UNCHANGED << args, driveKeynote, setupOpen, doRunOpen, queueElements,
                 callbacksAdded, sourceAdded, evq, notified, arrived, event,
                 handled, cbStart, cbSnapshot, cbArrived, stdout, keynote,
                 ifaceCalls >>

\* IOServiceGetMatchingService: the service, or 0 and exit(1)
LookupService ==
    /\ pc = "IOServiceGetMatchingService"
    /\ \/ /\ pc' = "IOObjectGetClass"
          /\ UNCHANGED << stderr, exitStatus, failure >>
       \/ /\ Die("Apple Infrared Remote not found.", "1")
          /\ failure' = "notFound"
    /\ StartupFrame
    /\ UNCHANGED << buttonNextID, buttonPreviousID, cookies, hidDeviceInterface,
                    elements, i, refs >>

\* createHIDDeviceInterface: IOObjectGetClass and print_errmsg_if_io_err
GetClass ==
    /\ pc = "IOObjectGetClass"
    /\ \/ /\ pc' = "IOCreatePlugInInterfaceForService"
          /\ UNCHANGED << stderr, exitStatus >>
       \/ Die("Failed to get class name.", "EX_OSERR")
    /\ StartupFrame
    /\ UNCHANGED << buttonNextID, buttonPreviousID, cookies, hidDeviceInterface,
                    elements, i, refs, failure >>

\* createHIDDeviceInterface: IOCreatePlugInInterfaceForService; a failure
\* returns to setupAndRun with *hdi still NULL
CreatePlugIn ==
    /\ pc = "IOCreatePlugInInterfaceForService"
    /\ \/ /\ pc' = "QueryInterface"
          /\ UNCHANGED failure
       \/ /\ pc' = "getHIDCookies"
          /\ failure' = "interface"
    /\ StartupFrame
    /\ UNCHANGED << buttonNextID, buttonPreviousID, cookies, hidDeviceInterface,
                    elements, i, refs, stderr,
                    exitStatus >>

\* createHIDDeviceInterface: QueryInterface, print_errmsg_if_err, and the
\* Release of the plug-in
QueryInterface ==
    /\ pc = "QueryInterface"
    /\ \/ /\ hidDeviceInterface' = "valid"
          /\ refs' = 1
          /\ pc' = "getHIDCookies"
          /\ UNCHANGED << stderr, exitStatus, failure >>
       \/ /\ Die("Failed to create device interface.", "EX_OSERR")
          /\ failure' = "interface"
          /\ UNCHANGED << hidDeviceInterface, refs >>
    /\ StartupFrame
    /\ UNCHANGED << buttonNextID, buttonPreviousID, cookies, elements, i >>

\* ---------------------------------------------------------- getHIDCookies
\* malloc, memset, the handle test and copyMatchingElements; Lists is the
\* set of element arrays the device may return
getHIDCookiesEnter(Lists) ==
    /\ pc = "getHIDCookies"
    /\ \/ /\ Die("Failed to allocate cookie memory.", "1")
          /\ UNCHANGED << cookies, elements, i >>
       \/ /\ hidDeviceInterface = "NULL"
          /\ cookies' = ZeroCookies
          /\ pc' = "getHIDCookies_return"
          /\ UNCHANGED << elements, i, stderr, exitStatus >>
       \/ /\ hidDeviceInterface # "NULL"
          /\ Die("Failed to copy cookies.", "1")
          /\ cookies' = ZeroCookies
          /\ UNCHANGED << elements, i >>
       \/ /\ hidDeviceInterface # "NULL"
          /\ cookies' = ZeroCookies
          /\ elements' \in Lists
          /\ i' = 0
          /\ pc' = "getHIDCookies_loop"
          /\ UNCHANGED << stderr, exitStatus >>
    /\ StartupFrame
    /\ UNCHANGED << buttonNextID, buttonPreviousID, hidDeviceInterface, refs, failure >>

\* one iteration of the for loop, or its exit
getHIDCookiesLoop ==
    /\ pc = "getHIDCookies_loop"
    /\ IF i < Len(elements)
       THEN LET el == elements[i + 1] IN
            /\ cookies' = StoreCookie(cookies, el)
            /\ buttonNextID' = StoreNextID(buttonNextID, el)
            /\ buttonPreviousID' = StorePreviousID(buttonPreviousID, el)
            /\ i' = i + 1
            /\ pc' = pc
       ELSE /\ pc' = "getHIDCookies_return"
            /\ UNCHANGED << cookies, buttonNextID, buttonPreviousID, i >>
    /\ StartupFrame
    /\ UNCHANGED << hidDeviceInterface, elements, refs, stderr, failure,
                    exitStatus >>

\* return cookies: the locals go out of scope
getHIDCookiesReturn ==
    /\ pc = "getHIDCookies_return"
    /\ pc' = "IOObjectRelease"
    /\ elements' = << >>
    /\ i' = 0
    /\ StartupFrame
    /\ UNCHANGED << buttonNextID, buttonPreviousID, cookies, hidDeviceInterface,
                    refs, stderr, failure,
                    exitStatus >>

\* IOObjectRelease(hidDevice), print_errmsg_if_io_err, and the NULL test
ReleaseDevice ==
    /\ pc = "IOObjectRelease"
    /\ \/ Die("Failed to release HID.", "EX_OSERR")
       \/ /\ hidDeviceInterface = "NULL"
          /\ Die("No HID.", "1")
       \/ /\ hidDeviceInterface # "NULL"
          /\ pc' = "setupAndRun_open"
          /\ UNCHANGED << stderr, exitStatus >>
    /\ StartupFrame
    /\ UNCHANGED << buttonNextID, buttonPreviousID, cookies, hidDeviceInterface,
                    elements, i, refs, failure >>

\* ------------------------------------------------- the device interface
\* a call through the device interface, recorded with the reference count
\* it is made under
Call(op) == ifaceCalls' = Append(ifaceCalls, [op |-> op, refs |-> refs])

\* the process is killed by a fault
Crash ==
    /\ pc' = "crashed"
    /\ exitStatus' = "signal"

\* where a call through the interface leads: to `next`, or, the interface
\* having been freed by its last Release, possibly to a fault
Proceed(next) ==
    \/ /\ pc' = next
       /\ UNCHANGED exitStatus
    \/ /\ refs <= 0
       /\ Crash

IOReturns == {"KERN_SUCCESS", "error"}

\* what the steps on the device interface leave alone
DeviceFrame ==
    UNCHANGED << args, driveKeynote, buttonNextID, buttonPreviousID, cookies,
                 hidDeviceInterface, elements, i, callbacksAdded, sourceAdded,
                 evq, notified, arrived, event, handled, cbStart, cbSnapshot,
                 cbArrived, stdout, keynote >>

\* setupAndRun: ioReturnValue = (*hidDeviceInterface)->open(...)
SetupOpen ==
    /\ pc = "setupAndRun_open"
    /\ setupOpen' \in IOReturns
    /\ Call("open")
    /\ Proceed("doRun_open")
    /\ DeviceFrame
    /\ UNCHANGED << refs, doRunOpen, queueElements, stderr, failure >>

\* doRun: ioReturnValue = (*hidDeviceInterface)->open(...)
DoRunOpen ==
    /\ pc = "doRun_open"
    /\ doRunOpen' \in IOReturns
    /\ Call("open")
    /\ Proceed("allocQueue")
    /\ DeviceFrame
    /\ UNCHANGED << refs, setupOpen, queueElements, stderr, failure >>

\* processQueue: allocQueue; without a queue, a message and a return to
\* doRun; with one, create and the six addElement calls
AllocQueue ==
    /\ pc = "allocQueue"
    /\ Call("allocQueue")
    /\ \/ /\ stderr' = Append(stderr, "Failed to allocate event queue.")
          /\ failure' = "allocQueue"
          /\ Proceed("doRun_close")
          /\ UNCHANGED queueElements
       \/ /\ queueElements' = AddedElements(cookies)
          /\ Proceed("addQueueCallbacks")
          /\ UNCHANGED << stderr, failure >>
    /\ DeviceFrame
    /\ UNCHANGED << refs, setupOpen, doRunOpen >>

\* what the steps of the queue's life leave alone
QueueFrame ==
    UNCHANGED << args, driveKeynote, buttonNextID, buttonPreviousID, cookies,
                 hidDeviceInterface, elements, i, refs, ifaceCalls, setupOpen,
                 doRunOpen, queueElements, failure,
                 stderr >>

\* addQueueCallbacks: false when createAsyncEventSource or setEventCallout
\* fails, and then no source is added; true with the source added
addQueueCallbacks ==
    /\ pc = "addQueueCallbacks"
    /\ \/ /\ callbacksAdded' = "false"
          /\ UNCHANGED sourceAdded
       \/ /\ callbacksAdded' = "true"
          /\ sourceAdded' = TRUE
    /\ pc' = "start"
    /\ QueueFrame
    /\ UNCHANGED << evq, notified, arrived, event, handled, cbStart, cbSnapshot,
                    cbArrived, stdout, keynote, exitStatus >>

\* processQueue: the value of addQueueCallbacks is dropped; start(queue) and
\* CFRunLoopRun()
StartQueue ==
    /\ pc = "start"
    /\ pc' = "CFRunLoopRun"
    /\ QueueFrame
    /\ UNCHANGED << callbacksAdded, sourceAdded, evq, notified, arrived, event,
                    handled, cbStart, cbSnapshot, cbArrived, stdout, keynote,
                    exitStatus >>

\* the driver puts an event of an added element on the queue and signals
\* the queue's port
EventArrives ==
    /\ pc \in {"CFRunLoopRun", "QueueCallbackFunction"}
    /\ arrived < MaxEvents
    /\ Len(evq) < QueueDepth
    /\ \E c \in queueElements, v \in EventValues :
           evq' = Append(evq, [elementCookie |-> c, value |-> v])
    /\ notified' = TRUE
    /\ arrived' = arrived + 1
    /\ cbArrived' = (cbArrived \/ pc = "QueueCallbackFunction")
    /\ QueueFrame
    /\ UNCHANGED << pc, callbacksAdded, sourceAdded, event, handled, cbStart,
                    cbSnapshot, stdout, keynote, exitStatus >>

\* the run loop calls the callout of the signalled source
CallbackEnter ==
    /\ pc = "CFRunLoopRun"
    /\ sourceAdded
    /\ notified
    /\ notified' = FALSE
    /\ pc' = "QueueCallbackFunction"
    /\ cbStart' = Len(handled)
    /\ cbSnapshot' = evq
    /\ cbArrived' = FALSE
    /\ QueueFrame
    /\ UNCHANGED << callbacksAdded, sourceAdded, evq, arrived, event, handled,
                    stdout, keynote, exitStatus >>

\* fault: the comparison with buttonNextID written as an assignment
CallbackFrameAssigning ==
    /\ buttonNextID' = IF evq # << >> THEN Head(evq).elementCookie ELSE buttonNextID
    /\ UNCHANGED << args, driveKeynote, buttonPreviousID, cookies,
                    hidDeviceInterface, elements, i, refs, ifaceCalls, setupOpen,
                    doRunOpen, queueElements, failure,
                    callbacksAdded, sourceAdded, notified, arrived, cbStart,
                    cbSnapshot, cbArrived, exitStatus >>

\* what QueueCallbackFunction leaves alone
CallbackFrame ==
    UNCHANGED << args, driveKeynote, buttonNextID, buttonPreviousID, cookies,
                 hidDeviceInterface, elements, i, refs, ifaceCalls, setupOpen,
                 doRunOpen, queueElements, failure,
                 callbacksAdded, sourceAdded, notified, arrived, cbStart,
                 cbSnapshot, cbArrived, exitStatus >>

\* QueueCallbackFunction: one turn of while (!ret)
QueueCallbackFunction ==
    /\ pc = "QueueCallbackFunction"
    /\ LET r == getNextEvent(evq) IN
       IF r.ret = 0
       THEN LET acts == SlideActions(r.event, driveKeynote, buttonNextID,
                                     buttonPreviousID)
            IN  /\ evq' = r.queue
                /\ event' = r.event
                /\ handled' = Append(handled, r.event)
                /\ stdout' = Append(stdout, EventLine(r.event))
                /\ keynote' = keynote \o
                      [k \in 1..Len(acts) |->
                          [n |-> Len(handled) + 1, action |-> acts[k]]]
                /\ IF acts = << >>
                   THEN UNCHANGED stderr
                   ELSE \E outcome \in AEOutcomes :
                            stderr' = stderr \o KeynoteChangeSlide(outcome)
                /\ pc' = pc
       ELSE /\ pc' = "CFRunLoopRun"
            /\ UNCHANGED << evq, event, handled, stdout, keynote, stderr >>
    /\ CallbackFrame

\* CFRunLoopRun returns when the run loop has no source; then stop, dispose
\* and Release of the queue, and the return to doRun
RunLoopReturns ==
    /\ pc = "CFRunLoopRun"
    /\ ~sourceAdded
    /\ pc' = "doRun_close"
    /\ QueueFrame
    /\ UNCHANGED << callbacksAdded, sourceAdded, evq, notified, arrived, event,
                    handled, cbStart, cbSnapshot, cbArrived, stdout, keynote,
                    exitStatus >>

\* doRun: if (ioReturnValue == KERN_SUCCESS) close
DoRunClose ==
    /\ pc = "doRun_close"
    /\ IF doRunOpen = "KERN_SUCCESS"
       THEN Call("close") /\ Proceed("doRun_Release")
       ELSE pc' = "doRun_Release" /\ UNCHANGED << ifaceCalls, exitStatus >>
    /\ DeviceFrame
    /\ UNCHANGED << refs, setupOpen, doRunOpen, queueElements, stderr, failure >>

\* doRun: Release
DoRunRelease ==
    /\ pc = "doRun_Release"
    /\ Call("Release")
    /\ refs' = refs - 1
    /\ Proceed("setupAndRun_close")
    /\ DeviceFrame
    /\ UNCHANGED << setupOpen, doRunOpen, queueElements, stderr, failure >>

\* setupAndRun: if (ioReturnValue == KERN_SUCCESS) close
SetupClose ==
    /\ pc = "setupAndRun_close"
    /\ IF setupOpen = "KERN_SUCCESS"
       THEN Call("close") /\ Proceed("setupAndRun_Release")
       ELSE pc' = "setupAndRun_Release" /\ UNCHANGED << ifaceCalls, exitStatus >>
    /\ DeviceFrame
    /\ UNCHANGED << refs, setupOpen, doRunOpen, queueElements, stderr, failure >>

\* setupAndRun: Release
SetupRelease ==
    /\ pc = "setupAndRun_Release"
    /\ Call("Release")
    /\ refs' = refs - 1
    /\ Proceed("main_return")
    /\ DeviceFrame
    /\ UNCHANGED << setupOpen, doRunOpen, queueElements, stderr, failure >>

\* main: return 0
MainReturn ==
    /\ pc = "main_return"
    /\ pc' = "exited"
    /\ exitStatus' = "0"
    /\ DeviceFrame
    /\ UNCHANGED << refs, ifaceCalls, setupOpen, doRunOpen, queueElements,
                    stderr, failure >>

\* --------------------------------------------------------- specifications
Next ==
    \/ MainHelp
    \/ MainKeynote
    \/ MainBadOption
    \/ MainSetupAndRun
    \/ LookupService
    \/ GetClass
    \/ CreatePlugIn
    \/ QueryInterface
    \/ getHIDCookiesEnter(SeqsUpTo(DeviceElements, MaxElements))
    \/ getHIDCookiesLoop
    \/ getHIDCookiesReturn
    \/ ReleaseDevice
    \/ SetupOpen
    \/ DoRunOpen
    \/ AllocQueue
    \/ addQueueCallbacks
    \/ StartQueue
    \/ EventArrives
    \/ CallbackEnter
    \/ QueueCallbackFunction
    \/ RunLoopReturns
    \/ DoRunClose
    \/ DoRunRelease
    \/ SetupClose
    \/ SetupRelease
    \/ MainReturn

Spec == Init /\ [][Next]_vars

\* getHIDCookies alone, called as setupAndRun calls it: with the interface
\* QueryInterface gave, or with NULL, on every element array
InitCookies ==
    /\ pc = "getHIDCookies"
    /\ args = << >>
    /\ \/ hidDeviceInterface = "NULL" /\ refs = 0
       \/ hidDeviceInterface = "valid" /\ refs = 1
    /\ InitCommon

NextCookies ==
    \/ getHIDCookiesEnter(SeqsUpTo(AllElements, MaxElements))
    \/ getHIDCookiesLoop
    \/ getHIDCookiesReturn

SpecCookies == InitCookies /\ [][NextCookies]_vars

\* ================================================================ claims
\* the process is blocked in CFRunLoopRun, or in a callout made from it
InRunLoop == pc \in {"CFRunLoopRun", "QueueCallbackFunction"}

\* processQueue got as far as CFRunLoopRun in this run
ReachedRunLoop == callbacksAdded # "unset" /\ pc # "start"

\* the calls of one kind made on the device interface
CallsOf(op) == {k \in 1..Len(ifaceCalls) : ifaceCalls[k].op = op}

\* the Keynote actions invoked for the n-th dequeued event
ActionsFor(n) == {k \in 1..Len(keynote) : keynote[k].n = n}

\* the events the current (or last) callback invocation has dequeued
HandledByCallback == SubSeq(handled, cbStart + 1, Len(handled))

IsEventLine(l) == l.label # "usage"
EventLines == SelectSeq(stdout, IsEventLine)

\* the number a "%#lx" text denotes
DigitValue(ch) == CHOOSE d \in 0..15 : HexDigit[d + 1] = ch
RECURSIVE DigitsValue(_)
DigitsValue(ds) ==
    IF ds = << >> THEN 0
    ELSE 16 * DigitsValue(SubSeq(ds, 1, Len(ds) - 1)) + DigitValue(ds[Len(ds)])
ParseHex(t) ==
    IF Len(t) >= 3 /\ t[1] = "0" /\ t[2] = "x"
    THEN DigitsValue(SubSeq(t, 3, Len(t)))
    ELSE DigitsValue(t)

\* the elements getHIDCookies has been through that carry all three numbers,
\* are on the Generic Desktop page and have the given usage
Matching(usage) ==
    {j \in 1..i : /\ elements[j].cookie # << >>
                  /\ elements[j].usagePage = "kHIDPage_GenericDesktop"
                  /\ elements[j].usage = usage}

\* ------------------------------------------------------------------- C1
\* C1: each of the three OS-level failures (no device, no device interface,
\* no queue) ends in a message on standard error and a nonzero exit status;
\* the run loop is not entered and main's return 0 is not reached.
C1_FailureExitsNonzero ==
    failure # "none" =>
        /\ ~InRunLoop
        /\ pc # "main_return"
        /\ pc = "exited" => (exitStatus # "0" /\ stderr # << >>)

\* ------------------------------------------------------------------- C2
\* C2: every event getNextEvent dequeues gives exactly one line on standard
\* output, made of the event's cookie and a label; the label is "depressed"
\* exactly for value 0 and "pressed" for every other value; a getNextEvent
\* error prints nothing.
C2_OneLinePerEvent ==
    /\ Len(EventLines) = Len(handled)
    /\ \A k \in 1..Len(EventLines) :
          /\ ParseHex(EventLines[k].hex) = handled[k].elementCookie
          /\ EventLines[k].label \in {"pressed", "depressed"}
          /\ EventLines[k].label = "depressed" <=> handled[k].value = 0

\* two events printed, a press with a value other than 1 and a release, one
\* of a cookie of two hex digits, and the callback back in the run loop
C2_Witness ==
    /\ pc = "CFRunLoopRun"
    /\ Len(handled) = 2
    /\ handled[1].value = 2 /\ handled[1].elementCookie = 27
    /\ handled[2].value = 0
    /\ stdout = << [hex |-> << "0", "x", "1", "b" >>, label |-> "pressed"],
                   [hex |-> FormatCookie(handled[2].elementCookie),
                    label |-> "depressed"] >>

\* ------------------------------------------------------------------- C3
\* what C3 and its amendment share: an action is invoked exactly for a press
\* of the next or previous button with forwarding enabled, at most one per
\* event, forward for the next button, none in a run without forwarding
C3_Common(n) ==
    LET ev == handled[n] IN
    /\ ActionsFor(n) # {} <=>
          /\ driveKeynote = 1
          /\ ev.value # 0
          /\ ev.elementCookie \in {buttonNextID, buttonPreviousID}
    /\ Cardinality(ActionsFor(n)) <= 1
    /\ \A k \in ActionsFor(n) :
          ev.elementCookie = buttonNextID => keynote[k].action = "slideForward"
    /\ driveKeynote = 0 => keynote = << >>

C4_LinearSequence ==
    ReachedRunLoop =>
        /\ Cardinality(CallsOf("open")) = 1
        /\ Cardinality(CallsOf("close")) <= 1
        /\ Cardinality(CallsOf("Release")) <= 1
        /\ pc \in {"main_return", "exited"} => Cardinality(CallsOf("Release")) = 1

\* ------------------------------------------------------------------- C5
\* the globals and the record the callback reads
Identifiers == << buttonNextID, buttonPreviousID, cookies >>

\* the statements of getHIDCookies that write them
InGetHIDCookies == pc \in {"getHIDCookies", "getHIDCookies_loop"}

\* C5 (as claimed): buttonNextID and buttonPreviousID are each written at
\* most once, in getHIDCookies; once the run loop is entered nothing changes
\* them or the cookie record. An identifier is 0 until it is written and the
\* cookies written are not 0, so one written at most once changes only from 0.
C5_Original ==
    [][ /\ buttonNextID' # buttonNextID => buttonNextID = 0
        /\ buttonPreviousID' # buttonPreviousID => buttonPreviousID = 0
        /\ Identifiers' # Identifiers => InGetHIDCookies
        /\ InRunLoop => Identifiers' = Identifiers ]_vars

\* C5 (amended): buttonNextID and buttonPreviousID are written only in
\* getHIDCookies, where every right (left) button of the array overwrites
\* the identifier, which ends as the record's right (left) field; once the
\* run loop is entered nothing changes them or the cookie record.
C5_Amended ==
    [][ /\ Identifiers' # Identifiers => InGetHIDCookies
        /\ ReachedRunLoop => Identifiers' = Identifiers
        /\ buttonNextID' = cookies'.gButtonCookie_SystemMenuRight
        /\ buttonPreviousID' = cookies'.gButtonCookie_SystemMenuLeft ]_vars

\* getHIDCookies has been through two right buttons with different cookies
\* and has written buttonNextID for each
C5_Witness ==
    /\ pc = "getHIDCookies_return"
    /\ i = 2
    /\ Matching("kHIDUsage_GD_SystemMenuRight") = {1, 2}
    /\ elements[1].cookie = << 5 >>
    /\ elements[2].cookie = << 27 >>
    /\ buttonNextID = 27

\* ------------------------------------------------------------------- C6
\* the record's field for each role, in the order app-menu, select, right,
\* left, up, down
Fields(c) ==
    << c.gButtonCookie_SystemAppMenu, c.gButtonCookie_SystemMenuSelect,
       c.gButtonCookie_SystemMenuRight, c.gButtonCookie_SystemMenuLeft,
       c.gButtonCookie_SystemMenuUp, c.gButtonCookie_SystemMenuDown >>

Last(S) == CHOOSE j \in S : \A k \in S : k <= j

\* C6: when getHIDCookies returns, each of the six fields is zero exactly
\* when the array has no element with a cookie, the Generic Desktop page and
\* the role's usage (or the handle is null), and otherwise holds the cookie
\* of the last such element; elements of other pages or with a number
\* missing change nothing. Stated for every prefix the loop has been through.
C6_LastMatchingCookie ==
    pc \in {"getHIDCookies_loop", "getHIDCookies_return"} =>
        \A r \in 1..6 :
            LET S == Matching(RoleUsages[r]) IN
            /\ Fields(cookies)[r] = 0 <=> S = {}
            /\ S # {} => Fields(cookies)[r] = elements[Last(S)].cookie[1]

\* getHIDCookies returns after an array of two select buttons with different
\* cookies: the second one's cookie is kept, the other fields are zero
C6_Witness ==
    /\ pc = "getHIDCookies_return"
    /\ i = 2
    /\ elements[1] = [cookie |-> << 27 >>, usage |-> "kHIDUsage_GD_SystemMenu",
                      usagePage |-> "kHIDPage_GenericDesktop"]
    /\ elements[2] = [cookie |-> << 5 >>, usage |-> "kHIDUsage_GD_SystemMenu",
                      usagePage |-> "kHIDPage_GenericDesktop"]
    /\ Fields(cookies) = << 0, 5, 0, 0, 0, 0 >>

\* ------------------------------------------------------------------- C7
\* C7: the run loop is entered only once addQueueCallbacks has returned true,
\* with the callout set and the event source on the run loop.
C7_RunLoopOnlyWithCallback ==
    pc = "CFRunLoopRun" => (callbacksAdded = "true" /\ sourceAdded)

C9_NoCallAfterFinalRelease ==
    \A k \in 1..Len(ifaceCalls) : ifaceCalls[k].refs > 0

\* ------------------------------------------------------------------ C10
\* C10: an unresolved button never causes an external action: every slide
\* action is for an event whose cookie is a nonzero, resolved right or left
\* cookie.
C10_UnresolvedNeverForwards ==
    \A k \in 1..Len(keynote) :
        LET c == handled[keynote[k].n].elementCookie IN
        /\ c # 0
        /\ c \in {cookies.gButtonCookie_SystemMenuRight,
                  cookies.gButtonCookie_SystemMenuLeft}

====
